---- MODULE Spec2Model ----
(***************************************************************************)
(* Model of package logger (src/logger/logger.go): a facade over the zap   *)
(* logging engine.  The facade's own code is translated statement by       *)
(* statement.  The engine calls it makes (level parsing, Config.Build,     *)
(* Logger.With, Logger.Debug ... Logger.Fatal) are modelled at the call    *)
(* sites by the engine's documented behaviour, because the facade's        *)
(* observable behaviour is the composition of the two.                     *)
(***************************************************************************)
EXTENDS Integers, Sequences, FiniteSets, TLC

VARIABLES
    cfg,        \* the LogConfig value the program passes to NewWithConfig
    handles,    \* the *Logger values constructed so far, by index
    ret,        \* what the last constructor / WithFields call returned
    calls,      \* the facade calls made so far, in order
    events,     \* what the engine did: sinks opened, method calls, writes, exit
    status,     \* "running" until the process terminates
    pend        \* per caller: the facade call it is inside of (concurrent runs)
                \* handles' ghost fields parent, via and added, and the fields
                \* logger and caller of calls and events, are history only

vars == <<cfg, handles, ret, calls, events, status, pend>>

\* ------------------------------------------------------------------ bounds
MaxOps == 4          \* handles built plus facade calls in one run
MaxShallowOps == 2   \* the same, for the configurations explored briefly

\* ----------------------------------------------------------------- strings
\* A level text is a sequence of characters, so that case folding is computed.
UpperAlpha == <<"A","B","C","D","E","F","G","H","I","J","K","L","M",
                "N","O","P","Q","R","S","T","U","V","W","X","Y","Z">>
LowerAlpha == <<"a","b","c","d","e","f","g","h","i","j","k","l","m",
                "n","o","p","q","r","s","t","u","v","w","x","y","z">>

LowerChar(c) ==
    IF \E i \in DOMAIN UpperAlpha : UpperAlpha[i] = c
    THEN LowerAlpha[CHOOSE i \in DOMAIN UpperAlpha : UpperAlpha[i] = c]
    ELSE c

\* bytes.ToLower
ToLower(s) == [i \in DOMAIN s |-> LowerChar(s[i])]

TxtDebug  == <<"d","e","b","u","g">>
TxtInfo   == <<"i","n","f","o">>
TxtWarn   == <<"w","a","r","n">>
TxtError  == <<"e","r","r","o","r">>
TxtDPanic == <<"d","p","a","n","i","c">>
TxtPanic  == <<"p","a","n","i","c">>
TxtFatal  == <<"f","a","t","a","l">>
TxtEmpty  == <<>>
TxtINFO   == <<"I","N","F","O">>
TxtMixed  == <<"W","a","r","n">>
TxtTrace  == <<"t","r","a","c","e">>
TxtVerb   == <<"v","e","r","b","o","s","e">>

\* The five names the configuration comment lists (logger.go line 18).
ListedLevelTexts == {TxtDebug, TxtInfo, TxtWarn, TxtError, TxtFatal}

\* The level texts a run may configure.
LevelTexts == ListedLevelTexts \cup
              {TxtDPanic, TxtPanic, TxtEmpty, TxtINFO, TxtMixed, TxtTrace, TxtVerb}

\* ------------------------------------------------------------------ levels
\* zapcore.Level, lowest severity first.
LevelOrder == <<"debug", "info", "warn", "error", "dpanic", "panic", "fatal">>
Rank(l) == CHOOSE i \in DOMAIN LevelOrder : LevelOrder[i] = l

\* LevelEnabler: an entry of level l passes threshold t
Enabled(t, l) == Rank(l) >= Rank(t)

NoLevel == "none"

UpperChar(c) ==
    IF \E i \in DOMAIN LowerAlpha : LowerAlpha[i] = c
    THEN UpperAlpha[CHOOSE i \in DOMAIN LowerAlpha : LowerAlpha[i] = c]
    ELSE c

\* the all-capitals spelling of a level name ("DEBUG" for "debug")
Caps(s) == [i \in DOMAIN s |-> UpperChar(s[i])]

\* zapcore.Level.unmarshalText: the exact spellings the engine knows.  Each
\* name is known in lower case and in capitals; the empty text means info.
unmarshalText(text) ==
    CASE text \in {TxtDebug, Caps(TxtDebug)}   -> "debug"
      [] text \in {TxtInfo, Caps(TxtInfo), TxtEmpty} -> "info"
      [] text \in {TxtWarn, Caps(TxtWarn)}     -> "warn"
      [] text \in {TxtError, Caps(TxtError)}   -> "error"
      [] text \in {TxtDPanic, Caps(TxtDPanic)} -> "dpanic"
      [] text \in {TxtPanic, Caps(TxtPanic)}   -> "panic"
      [] text \in {TxtFatal, Caps(TxtFatal)}   -> "fatal"
      [] OTHER -> NoLevel

\* level.UnmarshalText([]byte(config.Level)): the text as given, then folded to
\* lower case; NoLevel stands for the "unrecognized level" error.
UnmarshalText(text) ==
    IF unmarshalText(text) # NoLevel THEN unmarshalText(text)
    ELSE unmarshalText(ToLower(text))

\* ------------------------------------------------------------------- sinks
Stdout == [kind |-> "stream", name |-> "stdout"]
Stderr == [kind |-> "stream", name |-> "stderr"]
File(path) == [kind |-> "file", name |-> path]

\* The output paths a run may configure, and the ones the file system refuses
\* to open for writing (a directory that does not exist, the empty path).
OutputPaths == {"stdout", "stderr", "app.log", "/nodir/app.log", ""}
Unwritable == {"/nodir/app.log", ""}

\* The encodings a run may configure, and the ones the engine has registered.
Formats == {"console", "json", "xml"}
Encodings == {"console", "json"}

\* zap.Open on one path: "stdout" and "stderr" name the process streams, any
\* other path is opened (created if missing) as a file.
SinkOf(path) ==
    CASE path = "stdout" -> Stdout
      [] path = "stderr" -> Stderr
      [] OTHER -> File(path)

CanOpen(path) == path \in {"stdout", "stderr"} \/ path \notin Unwritable

\* ------------------------------------------------------------------ errors
NoErr == "nil"
ErrLevel == "invalid log level: unrecognized level"
ErrEncoder == "no encoder registered for name"
ErrOpen == "open sink: no such file or directory"

NoLogger == 0

\* ------------------------------------------------------------ construction
\* faulty variant: the configured path is dropped, every logger writes to stdout
outputPaths_AlwaysStdout(config) == <<"stdout">>

\* lines 41-47: both branches pass the configured path on
outputPaths(config) ==
    IF config.OutputPath = "stdout" THEN <<"stdout">> ELSE <<config.OutputPath>>

\* zap.Config.Build: the encoder is looked up, then the output sink and the
\* error sink (stderr) are opened, then the core is assembled.
Build(level, encoding, paths) ==
    IF encoding \notin Encodings
    THEN [err |-> ErrEncoder, core |-> NoLogger, opens |-> <<>>]
    ELSE IF ~CanOpen(paths[1])
    THEN [err |-> ErrOpen, core |-> NoLogger, opens |-> <<>>]
    ELSE [err |-> NoErr,
          core |-> [level |-> level, out |-> SinkOf(paths[1]), enc |-> encoding],
          opens |-> <<SinkOf(paths[1]), Stderr>>]

\* faulty variant: the parsed level is not used, the engine keeps its default (info)
NewWithConfigResult_DefaultLevel(config) ==
    IF UnmarshalText(config.Level) = NoLevel
    THEN [err |-> ErrLevel, core |-> NoLogger, opens |-> <<>>]
    ELSE Build("info", config.Format, outputPaths(config))

\* faulty variant: the parse error is not checked, the engine keeps its default (info)
NewWithConfigResult_IgnoreParseError(config) ==
    LET level == UnmarshalText(config.Level) IN
    Build(IF level = NoLevel THEN "info" ELSE level,
          config.Format, outputPaths(config))

\* faulty variant: the engine is built before the level is validated
NewWithConfigResult_BuildFirst(config) ==
    LET level == UnmarshalText(config.Level)
        built == Build(IF level = NoLevel THEN "info" ELSE level,
                       config.Format, outputPaths(config))
    IN IF level = NoLevel
       THEN [err |-> ErrLevel, core |-> NoLogger, opens |-> built.opens]
       ELSE built

\* NewWithConfig as a function of its argument: the level is parsed first and a
\* parse failure returns at once; otherwise the engine is built.
NewWithConfigResult(config) ==
    LET level == UnmarshalText(config.Level) IN
    IF level = NoLevel
    THEN [err |-> ErrLevel, core |-> NoLogger, opens |-> <<>>]
    ELSE Build(level, config.Format, outputPaths(config))

\* faulty variant: New defaults to the debug level
DefaultConfig_Debug == [Level |-> TxtDebug, OutputPath |-> "stdout", Format |-> "console"]

\* the configuration New passes
DefaultConfig == [Level |-> TxtInfo, OutputPath |-> "stdout", Format |-> "console"]

Configs == [Level : LevelTexts, OutputPath : OutputPaths, Format : Formats]

\* The configurations whose runs are explored to MaxOps operations; every other
\* configuration is explored to MaxShallowOps.
DeepConfigs ==
    {DefaultConfig,
     [Level |-> TxtWarn, OutputPath |-> "app.log", Format |-> "json"]}

Budget == IF cfg \in DeepConfigs THEN MaxOps ELSE MaxShallowOps

Entering == {c \in DOMAIN pend : pend[c].op # "idle"}
Ops == Len(handles) + Len(calls)
     + Cardinality({c \in Entering : pend[c].op = "WithFields"})

OpenEv(sink, via) == [kind |-> "open", sink |-> sink, by |-> via]

\* A constructor's effect on the program state.
Construct(config, via) ==
    LET r == NewWithConfigResult(config) IN
    /\ status = "running"
    /\ Ops < Budget
    /\ events' = events \o [i \in DOMAIN r.opens |-> OpenEv(r.opens[i], via)]
    /\ IF r.err = NoErr
       THEN /\ handles' = Append(handles,
                  [Logger |-> [core |-> r.core, ctx |-> <<>>],
                   parent |-> NoLogger, via |-> via, added |-> <<>>])
            /\ ret' = [op |-> via, err |-> NoErr, logger |-> Len(handles) + 1]
       ELSE /\ handles' = handles
            /\ ret' = [op |-> via, err |-> r.err, logger |-> NoLogger]
    /\ UNCHANGED <<cfg, calls, status, pend>>

NewWithConfig == Construct(cfg, "NewWithConfig")

New == Construct(DefaultConfig, "New")

\* ------------------------------------------------------------------ fields
Field(k, v) == [key |-> k, val |-> v]
\* zap.Error(err)
ZapError(err) == Field("error", err)

CallArgs == {[msg |-> "started", fields |-> <<>>],
             [msg |-> "request", fields |-> <<Field("id", "7")>>]}
ChildFields == {<<Field("k1", "v1"), Field("k2", "v2")>>, <<Field("k3", "v3")>>}
Errs == {NoErr, "disk full"}
Formatted == {"cannot start"}

\* ------------------------------------------------------------------ engine
\* zap.Logger.<Level>(msg, fields...) on engine logger eng (held by handle h,
\* called by caller c): the entry is written to the core's sink when the core's
\* level enables it, carrying the logger's context fields followed by the
\* call's fields; a fatal-level call then terminates the process (exit status
\* 1), written or not.
CallEv(h, c, lvl, msg, fs) ==
    [kind |-> "call", logger |-> h, caller |-> c,
     level |-> lvl, msg |-> msg, fields |-> fs]
WriteEv(eng, h, c, lvl, msg, fs) ==
    [kind |-> "write", sink |-> eng.core.out, enc |-> eng.core.enc,
     logger |-> h, caller |-> c,
     level |-> lvl, msg |-> msg, fields |-> eng.ctx \o fs]
ExitEv == [kind |-> "exit"]

ZapCheckWrite(eng, h, c, lvl, msg, fs) ==
    (IF Enabled(eng.core.level, lvl)
     THEN <<WriteEv(eng, h, c, lvl, msg, fs)>> ELSE <<>>)
    \o (IF lvl = "fatal" THEN <<ExitEv>> ELSE <<>>)

ZapLog(eng, h, c, lvl, msg, fs) ==
    <<CallEv(h, c, lvl, msg, fs)>> \o ZapCheckWrite(eng, h, c, lvl, msg, fs)

\* zap.Logger.With: a clone of the engine logger with fs added to its context
With(eng, fs) == [core |-> eng.core, ctx |-> eng.ctx \o fs]

\* ------------------------------------------------------------------ facade
Exits(evs) == \E i \in DOMAIN evs : evs[i].kind = "exit"

\* faulty variant: Fatalf logs the error through the engine's Error method
FatalfBody_ErrorLevel(eng, h, c, format, err) ==
    LET logged == IF err # NoErr
                  THEN ZapLog(eng, h, c, "error", format, <<ZapError(err)>>)
                  ELSE <<>>
    IN IF Exits(logged) THEN logged ELSE logged \o <<ExitEv>>

\* Fatalf: a non-nil error is logged through the engine's Fatal (which exits);
\* os.Exit(1) is reached when no engine call has ended the process.
FatalfBody(eng, h, c, format, err) ==
    LET logged == IF err # NoErr
                  THEN ZapLog(eng, h, c, "fatal", format, <<ZapError(err)>>)
                  ELSE <<>>
    IN IF Exits(logged) THEN logged ELSE logged \o <<ExitEv>>

\* faulty variant: Warn forwards to the engine's Error method
Forward_Relevelled(method, eng, h, c, msg, fs, err) ==
    CASE method = "Debug"  -> ZapLog(eng, h, c, "debug", msg, fs)
      [] method = "Info"   -> ZapLog(eng, h, c, "info", msg, fs)
      [] method = "Warn"   -> ZapLog(eng, h, c, "error", msg, fs)
      [] method = "Error"  -> ZapLog(eng, h, c, "error", msg, fs)
      [] method = "Fatal"  -> ZapLog(eng, h, c, "fatal", msg, fs)
      [] method = "Fatalf" -> FatalfBody(eng, h, c, msg, err)

\* The body of each emission method, on the engine logger the handle holds.
Forward(method, eng, h, c, msg, fs, err) ==
    CASE method = "Debug"  -> ZapLog(eng, h, c, "debug", msg, fs)
      [] method = "Info"   -> ZapLog(eng, h, c, "info", msg, fs)
      [] method = "Warn"   -> ZapLog(eng, h, c, "warn", msg, fs)
      [] method = "Error"  -> ZapLog(eng, h, c, "error", msg, fs)
      [] method = "Fatal"  -> ZapLog(eng, h, c, "fatal", msg, fs)
      [] method = "Fatalf" -> FatalfBody(eng, h, c, msg, err)

\* faulty variant: the new handle wraps the receiver's engine, the fields are dropped
WithFieldsResult_NoFields(h, fs) ==
    Append(handles, [Logger |-> handles[h].Logger,
                     parent |-> h, via |-> "WithFields", added |-> fs])

\* faulty variant: the new handle wraps a fresh default engine with the fields
WithFieldsResult_FreshEngine(h, fs) ==
    Append(handles,
           [Logger |-> With([core |-> NewWithConfigResult(DefaultConfig).core,
                             ctx |-> handles[h].Logger.ctx], fs),
            parent |-> h, via |-> "WithFields", added |-> fs])

\* faulty variant: the receiver's engine pointer is overwritten with the clone
WithFieldsResult_Mutating(h, fs) ==
    [Append(handles, [Logger |-> With(handles[h].Logger, fs),
                      parent |-> h, via |-> "WithFields", added |-> fs])
       EXCEPT ![h].Logger = With(handles[h].Logger, fs)]

\* WithFields: a new handle around the engine's clone; the receiver is only read
WithFieldsResult(h, fs) ==
    Append(handles, [Logger |-> With(handles[h].Logger, fs),
                     parent |-> h, via |-> "WithFields", added |-> fs])

FacadeCall(h, c, method, msg, fs, err) ==
    [logger |-> h, caller |-> c, method |-> method,
     msg |-> msg, fields |-> fs, err |-> err]

\* the goroutine of a sequential program
Main == "g1"

\* One facade call of a sequential program, start to return.
Do(h, method, msg, fs, err) ==
    LET evs == Forward(method, handles[h].Logger, h, Main, msg, fs, err) IN
    /\ status = "running"
    /\ h \in DOMAIN handles
    /\ Ops < Budget
    /\ calls' = Append(calls, FacadeCall(h, Main, method, msg, fs, err))
    /\ events' = events \o evs
    /\ status' = IF Exits(evs) THEN "exited" ELSE status
    /\ UNCHANGED <<cfg, handles, ret, pend>>

Debug(h, msg, fs) == Do(h, "Debug", msg, fs, NoErr)

Info(h, msg, fs) == Do(h, "Info", msg, fs, NoErr)

Warn(h, msg, fs) == Do(h, "Warn", msg, fs, NoErr)

Error(h, msg, fs) == Do(h, "Error", msg, fs, NoErr)

Fatal(h, msg, fs) == Do(h, "Fatal", msg, fs, NoErr)

Fatalf(h, format, err) == Do(h, "Fatalf", format, <<>>, err)

WithFields(h, fs) ==
    /\ status = "running"
    /\ h \in DOMAIN handles
    /\ Ops < Budget
    /\ handles' = WithFieldsResult(h, fs)
    /\ ret' = [op |-> "WithFields", err |-> NoErr, logger |-> Len(handles) + 1]
    /\ UNCHANGED <<cfg, calls, events, status, pend>>

\* ------------------------------------------------------------ the program
Callers == {"g1", "g2"}
Idle == [op |-> "idle"]

Init ==
    /\ cfg \in Configs
    /\ handles = <<>>
    /\ ret = [op |-> "none", err |-> NoErr, logger |-> NoLogger]
    /\ calls = <<>>
    /\ events = <<>>
    /\ status = "running"
    /\ pend = [c \in Callers |-> Idle]

Next ==
    \/ NewWithConfig
    \/ New
    \/ \E h \in DOMAIN handles, a \in CallArgs : Debug(h, a.msg, a.fields)
    \/ \E h \in DOMAIN handles, a \in CallArgs : Info(h, a.msg, a.fields)
    \/ \E h \in DOMAIN handles, a \in CallArgs : Warn(h, a.msg, a.fields)
    \/ \E h \in DOMAIN handles, a \in CallArgs : Error(h, a.msg, a.fields)
    \/ \E h \in DOMAIN handles, a \in CallArgs : Fatal(h, a.msg, a.fields)
    \/ \E h \in DOMAIN handles, f \in Formatted, e \in Errs : Fatalf(h, f, e)
    \/ \E h \in DOMAIN handles, fs \in ChildFields : WithFields(h, fs)

Spec == Init /\ [][Next]_vars

\* ------------------------------------------------------ concurrent callers
\* Several goroutines share the handles.  A facade method first reads the
\* receiver's engine pointer (Enter), then the engine call runs on it (Return);
\* the engine's sink is locked, so one entry is written in one step.
ConcMethods == {"Info", "Error", "Fatal"}

ConcConfigs ==
    {DefaultConfig,
     [Level |-> TxtWarn, OutputPath |-> "app.log", Format |-> "json"]}

Enter(c, h, method, msg, fs) ==
    /\ status = "running"
    /\ pend[c] = Idle
    /\ h \in DOMAIN handles
    /\ Ops < Budget
    /\ calls' = Append(calls, FacadeCall(h, c, method, msg, fs, NoErr))
    /\ pend' = [pend EXCEPT ![c] =
                  [op |-> method, logger |-> h, eng |-> handles[h].Logger,
                   msg |-> msg, fields |-> fs]]
    /\ UNCHANGED <<cfg, handles, ret, events, status>>

EnterWithFields(c, h, fs) ==
    /\ status = "running"
    /\ pend[c] = Idle
    /\ h \in DOMAIN handles
    /\ Ops < Budget
    /\ pend' = [pend EXCEPT ![c] =
                  [op |-> "WithFields", logger |-> h, eng |-> handles[h].Logger,
                   msg |-> "", fields |-> fs]]
    /\ UNCHANGED <<cfg, handles, ret, calls, events, status>>

Return(c) ==
    LET p == pend[c] IN
    /\ status = "running"
    /\ p # Idle
    /\ p.op # "WithFields"
    /\ LET evs == Forward(p.op, p.eng, p.logger, c, p.msg, p.fields, NoErr) IN
         /\ events' = events \o evs
         /\ status' = IF Exits(evs) THEN "exited" ELSE status
    /\ pend' = [pend EXCEPT ![c] = Idle]
    /\ UNCHANGED <<cfg, handles, ret, calls>>

ReturnWithFields(c) ==
    LET p == pend[c] IN
    /\ status = "running"
    /\ p # Idle
    /\ p.op = "WithFields"
    /\ handles' = WithFieldsResult(p.logger, p.fields)
    /\ ret' = [op |-> "WithFields", err |-> NoErr, logger |-> Len(handles) + 1]
    /\ pend' = [pend EXCEPT ![c] = Idle]
    /\ UNCHANGED <<cfg, calls, events, status>>

ConcInit ==
    /\ cfg \in ConcConfigs
    /\ handles = <<>>
    /\ ret = [op |-> "none", err |-> NoErr, logger |-> NoLogger]
    /\ calls = <<>>
    /\ events = <<>>
    /\ status = "running"
    /\ pend = [c \in Callers |-> Idle]

ConcNext ==
    \/ NewWithConfig
    \/ \E c \in Callers, h \in DOMAIN handles, m \in ConcMethods, a \in CallArgs :
          Enter(c, h, m, a.msg, a.fields)
    \/ \E c \in Callers, h \in DOMAIN handles, fs \in ChildFields :
          EnterWithFields(c, h, fs)
    \/ \E c \in Callers : Return(c)
    \/ \E c \in Callers : ReturnWithFields(c)

ConcSpec == ConcInit /\ [][ConcNext]_vars

\* ================================================================== claims
IsWrite(e) == e.kind = "write"
Writes(evs) == SelectSeq(evs, IsWrite)
Entry(e) == [sink |-> e.sink, level |-> e.level, msg |-> e.msg, fields |-> e.fields]
Last(q) == q[Len(q)]

\* the severity a facade method logs at, and the threshold a listed level
\* name asks for, both counted from debug = 1
MethodNames == <<"Debug", "Info", "Warn", "Error", "Fatal">>
ListedNames == <<TxtDebug, TxtInfo, TxtWarn, TxtError, TxtFatal>>
EngineNames == <<"debug", "info", "warn", "error", "fatal">>
Severity(method) ==
    IF method = "Fatalf" THEN Len(MethodNames)
    ELSE CHOOSE i \in DOMAIN MethodNames : MethodNames[i] = method
Threshold(text) == CHOOSE i \in DOMAIN ListedNames : ListedNames[i] = text

\* the level texts the engine's parser recognises: the empty text and every
\* letter-case variant of its seven level names
Recognised(text) ==
    \/ text = <<>>
    \/ ToLower(text) \in {TxtDebug, TxtInfo, TxtWarn, TxtError,
                          TxtDPanic, TxtPanic, TxtFatal}

\* the context fields handle h was given through WithFields, root first
RECURSIVE CtxOf(_)
CtxOf(h) ==
    IF handles[h].parent = NoLogger THEN <<>>
    ELSE CtxOf(handles[h].parent) \o handles[h].added

ViaConfig(h) == handles[h].via = "NewWithConfig"

\* ---------------------------------------------------------------------- C1
CallsOn(h) == SelectSeq(calls, LAMBDA k : k.logger = h)
WritesBy(h) == SelectSeq(events, LAMBDA e : e.kind = "write" /\ e.logger = h)

C1Expected(h) ==
    LET passing == SelectSeq(CallsOn(h),
                     LAMBDA k : Severity(k.method) >= Threshold(cfg.Level))
    IN [i \in DOMAIN passing |->
          [sink |-> SinkOf(cfg.OutputPath),
           level |-> EngineNames[Severity(passing[i].method)],
           msg |-> passing[i].msg, fields |-> passing[i].fields]]

C1Written(h) == [i \in DOMAIN WritesBy(h) |-> Entry(WritesBy(h)[i])]

\* C1: for each of the level names debug, info, warn, error, fatal (with an
\* output that opens and a registered format) NewWithConfig succeeds, and the
\* entries its handle has written are exactly those of the Debug/Info/Warn/
\* Error/Fatal calls made on it whose severity is at or above that level.
C1_ThresholdHonoured ==
    (cfg.Level \in ListedLevelTexts /\ cfg.Format \in Encodings
       /\ CanOpen(cfg.OutputPath))
    => /\ ret.op = "NewWithConfig" => ret.err = NoErr /\ ret.logger \in DOMAIN handles
       /\ \A h \in DOMAIN handles :
            (ViaConfig(h) /\ \A i \in DOMAIN calls : calls[i].method # "Fatalf")
            => C1Written(h) = C1Expected(h)

C1_Witness ==
    /\ cfg.Level = TxtWarn
    /\ Len(calls) = 2
    /\ ViaConfig(calls[1].logger) /\ calls[2].logger = calls[1].logger
    /\ calls[1].method = "Info" /\ calls[2].method = "Error"
    /\ Len(Writes(events)) = 1

C3NewEvents == SubSeq(events', Len(events) + 1, Len(events'))

C4Fields ==
    /\ \A h \in DOMAIN handles : handles[h].Logger.ctx = CtxOf(h)
    /\ \A i \in DOMAIN events :
         events[i].kind = "write"
         => /\ i > 1 /\ events[i - 1].kind = "call"
            /\ events[i - 1].logger = events[i].logger
            /\ events[i].fields = CtxOf(events[i].logger) \o events[i - 1].fields

C4Frame == \A h \in DOMAIN handles : h \in DOMAIN handles' /\ handles'[h] = handles[h]

\* C4: every entry written through a handle carries the fields that handle was
\* given by WithFields (its ancestors' first) followed by the call's own
\* fields and nothing else, so a child's entries carry k1 and k2 and the
\* parent's do not; and no operation changes an existing handle.
C4_WithFields == []C4Fields /\ [][C4Frame]_vars

C4HasKey(e, key) == \E j \in DOMAIN e.fields : e.fields[j].key = key

C4_Witness ==
    \E i, j \in DOMAIN events :
       /\ i < j
       /\ events[i].kind = "write" /\ events[j].kind = "write"
       /\ handles[events[i].logger].parent = events[j].logger
       /\ C4HasKey(events[i], "k1") /\ C4HasKey(events[i], "k2")
       /\ ~C4HasKey(events[j], "k1")

\* ---------------------------------------------------------------------- C5
C5Core(h) == handles[h].Logger.core

C5Same ==
    /\ \A h \in DOMAIN handles :
         handles[h].via = "WithFields" => C5Core(h) = C5Core(handles[h].parent)
    /\ \A i \in DOMAIN events :
         events[i].kind = "write"
         => /\ events[i].sink = C5Core(events[i].logger).out
            /\ Rank(events[i].level) >= Rank(C5Core(events[i].logger).level)

C5Fixed ==
    \A h \in DOMAIN handles :
       /\ h \in DOMAIN handles'
       /\ handles'[h].Logger.core.level = C5Core(h).level
       /\ handles'[h].Logger.core.out = C5Core(h).out

\* C5: no operation changes the threshold or the destination of an existing
\* handle, a handle made by WithFields has its parent's threshold and
\* destination, and every entry is written accordingly.
C5_FixedThresholdAndDestination == []C5Same /\ [][C5Fixed]_vars

C5_Witness ==
    /\ Len(handles) >= 2 /\ handles[2].via = "WithFields"
    /\ C5Core(2).level = "warn" /\ C5Core(2).out = File("app.log")
    /\ \E i \in DOMAIN events : events[i].kind = "write" /\ events[i].logger = 2

\* ---------------------------------------------------------------------- C6
C6Opened(sink) ==
    \E i \in DOMAIN events :
       events[i].kind = "open" /\ events[i].by = "NewWithConfig"
       /\ events[i].sink = sink

C6Destination ==
    CASE cfg.OutputPath = "stdout" -> Stdout
      [] cfg.OutputPath = "stderr" -> Stderr
      [] OTHER -> File(cfg.OutputPath)

C7Config == [Level |-> TxtInfo, OutputPath |-> "stdout", Format |-> "console"]

C7Call(k) == [method |-> k.method, msg |-> k.msg, fields |-> k.fields, err |-> k.err]
C7Calls(h) == [i \in DOMAIN CallsOn(h) |-> C7Call(CallsOn(h)[i])]

\* C7: when the configuration is {info, stdout, console}, New and NewWithConfig
\* have the same outcome, the handles they return hold equal engines, handles
\* derived from them with the same fields hold equal engines, and after the
\* same calls the two handles have written the same entries.
C7_NewIsDefaultConfig ==
    cfg = C7Config
    => /\ \A h1, h2 \in DOMAIN handles :
            (handles[h1].via = "New" /\ handles[h2].via = "NewWithConfig")
            => /\ handles[h1].Logger = handles[h2].Logger
               /\ C7Calls(h1) = C7Calls(h2) => C1Written(h1) = C1Written(h2)
               /\ \A c1, c2 \in DOMAIN handles :
                    (handles[c1].parent = h1 /\ handles[c2].parent = h2
                       /\ handles[c1].added = handles[c2].added)
                    => handles[c1].Logger = handles[c2].Logger
       /\ ret.op \in {"New", "NewWithConfig"}
            => ret.err = NoErr /\ ret.logger \in DOMAIN handles

C7_Witness ==
    /\ cfg = C7Config
    /\ Len(handles) = 2 /\ Len(calls) = 2
    /\ handles[calls[1].logger].via = "New"
    /\ handles[calls[2].logger].via = "NewWithConfig"
    /\ calls[1].method = "Warn" /\ C7Call(calls[1]) = C7Call(calls[2])
    /\ Len(Writes(events)) = 2

\* ---------------------------------------------------------------------- C8
C8Facade ==
    SelectSeq(calls, LAMBDA k : k.method \in {"Debug", "Info", "Warn", "Error"})
C8Engine ==
    SelectSeq(events, LAMBDA e :
        e.kind = "call" /\ e.level \in {"debug", "info", "warn", "error"})

\* C8: the engine's debug/info/warn/error method calls are, in order, the
\* facade's Debug/Info/Warn/Error calls: same count, same logger, the method of
\* the same severity, same message, same fields; each is made within the
\* facade call itself.
C8_Delegation ==
    /\ Len(C8Engine) = Len(C8Facade)
    /\ \A i \in DOMAIN C8Facade :
         /\ C8Engine[i].logger = C8Facade[i].logger
         /\ C8Engine[i].level = EngineNames[Severity(C8Facade[i].method)]
         /\ C8Engine[i].msg = C8Facade[i].msg
         /\ C8Engine[i].fields = C8Facade[i].fields

C8_Witness ==
    /\ Len(calls) = 2
    /\ calls[1].method = "Warn" /\ calls[1].msg = "request"
    /\ calls[2].method = "Debug" /\ calls[2].msg = "started"
    /\ Len(C8Engine) = 2

\* ---------------------------------------------------------------------- C9
C9Done(c) ==
    LET mine == SelectSeq(calls, LAMBDA k : k.caller = c)
    IN IF pend[c].op \notin {"idle", "WithFields"}
       THEN SubSeq(mine, 1, Len(mine) - 1) ELSE mine

C9Expected(c) ==
    LET passing == SelectSeq(C9Done(c),
                     LAMBDA k : Severity(k.method) >= Threshold(cfg.Level))
    IN [i \in DOMAIN passing |->
          [sink |-> SinkOf(cfg.OutputPath),
           level |-> EngineNames[Severity(passing[i].method)],
           msg |-> passing[i].msg,
           fields |-> CtxOf(passing[i].logger) \o passing[i].fields]]

C9Written(c) ==
    LET w == SelectSeq(events, LAMBDA e : e.kind = "write" /\ e.caller = c)
    IN [i \in DOMAIN w |-> Entry(w[i])]

C9Entries == \A c \in Callers : C9Written(c) = C9Expected(c)

C9Frame == \A h \in DOMAIN handles : h \in DOMAIN handles' /\ handles'[h] = handles[h]

\* C9: with several callers inside facade methods of the same handles at once,
\* no step writes to an existing handle, and each caller's written entries are
\* exactly those of its own completed calls, in its own order, each with the
\* fields of the handle it was made on and of the call: none lost, duplicated
\* or mixed with another caller's.
C9_SharedHandle == []C9Entries /\ [][C9Frame]_vars

C9_Witness ==
    /\ pend["g1"].op = "WithFields" /\ pend["g2"].op = "Info"
    /\ pend["g1"].logger = pend["g2"].logger
    /\ \E i \in DOMAIN events :
         events[i].kind = "write" /\ events[i].logger = pend["g1"].logger

\* --------------------------------------------------------------------- C10
\* C10: when the level text is not recognised, NewWithConfig has opened no
\* destination and no handle of it exists, whatever OutputPath and Format are;
\* a destination opened by NewWithConfig means the level was validated.
C10_NoPartialState ==
    /\ (ret.op = "NewWithConfig" /\ ret.err = ErrLevel)
       => /\ ret.logger = NoLogger
          /\ \A h \in DOMAIN handles : ~ViaConfig(h)
          /\ \A i \in DOMAIN events :
               events[i].kind = "open" => events[i].by # "NewWithConfig"
    /\ (\E i \in DOMAIN events :
          events[i].kind = "open" /\ events[i].by = "NewWithConfig")
       => Recognised(cfg.Level)

C10_Witness ==
    /\ ret.op = "NewWithConfig" /\ ret.err = ErrLevel
    /\ cfg.OutputPath = "app.log" /\ cfg.Format = "json"
    /\ events = <<>>
====
